---- MODULE Spec2Model ----
(***************************************************************************)
(* Model of the team-reminders repository.  Its main part is the          *)
(* recipient-list handling of the Streamlit script src/app.py, which loads *)
(* a default CSV file on the first run of a session and normalises an      *)
(* uploaded CSV on later runs; the schedule tab of the same script, the    *)
(* dispatcher src/src/main.py, the worker tasks and pool functions of      *)
(* src/src/worker.py and the API src/src/api.py each have a specification  *)
(* of their own, in which the other components stay idle.                  *)
(*                                                                         *)
(* A data frame is a record [columns, dtypes, rows]; a row is a sequence   *)
(* of cells aligned with the columns; a cell is <<>> (null) or <<v>>.      *)
(* st.session_state.recipients_df is <<>> while the key is not in the      *)
(* session state and <<df>> once it is.  The save button of the same       *)
(* script writes the table back to the default file.                       *)
(***************************************************************************)
EXTENDS Integers, Sequences, FiniteSets, TLC

VARIABLES recipients_df, run, disk, saved, main_run, outbox, task_run, queue,
          arq_redis_pool, pools, calls, epoch, app_state, lifespan, requests,
          schedule, schedule_type_select, schedule_run

\* disk is the file at the path "August Rent - Sheet1.csv", which the
\* default-file load reads and the save button writes; saved is <<>> or
\* <<df>>, the table the last completed save was asked to write.
diskVars == <<disk, saved>>

\* The schedule tab of the script: schedule is st.session_state.schedule,
\* with day_of_month 0 while the key is not in the dictionary;
\* schedule_type_select is the state of the select box with that key, its
\* value "unset" before it is first drawn; schedule_run is what the last
\* script run computed for the select box.
scheduleVars == <<schedule, schedule_type_select, schedule_run>>

\* The dispatcher src/src/main.py and the worker tasks of src/src/worker.py:
\* main_run is the position of main() in its file, outbox the calls of
\* client.messages.create made so far, task_run the position of
\* send_all_reminders_task in its list and queue the jobs in the arq queue.
dispatchVars == <<main_run, outbox, task_run, queue>>

\* The pool functions of src/src/worker.py: arq_redis_pool is the module
\* global _arq_redis_pool, 0 for None and otherwise the number of a pool;
\* pools are the pools create_pool has returned so far; calls is, per caller,
\* the call of get_arq_pool or close_arq_pool it is in; epoch counts what
\* happened since the last close_arq_pool that closed a pool completed.
poolVars == <<arq_redis_pool, pools, calls, epoch>>

\* The API of src/src/api.py: app_state is app.state.arq_pool, -1 while the
\* attribute is not set, 0 for None and otherwise the number of a pool;
\* lifespan is the position of the lifespan context manager; requests are
\* the POST /send/trigger requests.
apiVars == <<app_state, lifespan, requests>>

\* What a step of main() and what a step of a worker task leave alone.
notMainVars == <<task_run, queue, recipients_df, run, diskVars, scheduleVars, poolVars, apiVars>>
notTaskVars ==
    <<main_run, outbox, recipients_df, run, diskVars, scheduleVars, poolVars, apiVars>>

\* The variables the recipient handling of the script does not touch.
elsewhereVars == <<scheduleVars, dispatchVars, poolVars, apiVars>>

vars == <<recipients_df, run, diskVars, elsewhereVars>>

(***************************************************************************)
(* Bounds of the input files.                                              *)
(***************************************************************************)
MaxCols == 4
MaxRows == 2

\* Header names that occur in the input files, as written in the file.
ColNames == {"Tenant", "Name", "PHONE", "Paid", "SendFlag", "Foo"}

\* Field texts that occur in the input files; "" is an empty field.
CellText == <<"", "Yes", "N", "maybe">>

(***************************************************************************)
(* Python and Polars primitives.                                           *)
(***************************************************************************)

\* str.lower() / Expr.str.to_lowercase() on the strings of the model.
lower(s) ==
    CASE s = "Tenant" -> "tenant"
      [] s = "Name" -> "name"
      [] s = "Contact" -> "contact"
      [] s = "PHONE" -> "phone"
      [] s = "Phone" -> "phone"
      [] s = "PhoneNumber" -> "phonenumber"
      [] s = "Mobile" -> "mobile"
      [] s = "Paid" -> "paid"
      [] s = "SendFlag" -> "sendflag"
      [] s = "Foo" -> "foo"
      [] s = "Yes" -> "yes"
      [] s = "N" -> "n"
      [] s = "FALSE" -> "false"
      [] s = "TRUE" -> "true"
      [] OTHER -> s

Range(seq) == {seq[i] : i \in DOMAIN seq}

HasDuplicates(seq) == \E i, j \in DOMAIN seq : i < j /\ seq[i] = seq[j]

IndexOf(seq, x) == CHOOSE i \in DOMAIN seq : seq[i] = x

\* The sequence seq without its element at position k.
RemoveAt(seq, k) == [i \in 1..(Len(seq) - 1) |-> IF i < k THEN seq[i] ELSE seq[i + 1]]

\* The schema every recipient table is cast to.
recipients_schema == [Name |-> "Utf8", PhoneNumber |-> "Utf8", SendFlag |-> "Boolean"]

schema_columns == <<"Name", "PhoneNumber", "SendFlag">>

\* pl.DataFrame(schema=recipients_schema): no rows, the three columns.
EmptyFrame ==
    [columns |-> schema_columns,
     dtypes |-> <<"Utf8", "Utf8", "Boolean">>,
     rows |-> <<>>]

\* A CSV file: absent from disk, not parseable, or a header and lines of fields.
NoFile == [exists |-> FALSE, parses |-> FALSE, header |-> <<>>, lines |-> <<>>]
BadCsv == [exists |-> TRUE, parses |-> FALSE, header |-> <<>>, lines |-> <<>>]
CsvFile(header, lines) == [exists |-> TRUE, parses |-> TRUE, header |-> header, lines |-> lines]

\* read_csv that takes the first line after the header for a second header.
read_csv_skips_line(file) ==
    [columns |-> file.header,
     dtypes |-> [j \in DOMAIN file.header |-> "Utf8"],
     rows |-> [i \in 1..(Len(file.lines) - 1) |->
                 [j \in DOMAIN file.header |->
                    IF file.lines[i + 1][j] = "" THEN <<>> ELSE <<file.lines[i + 1][j]>>]]]

\* pl.read_csv(..., has_header=True, infer_schema_length=0): every column is
\* read as Utf8 and an empty field is read as null.
read_csv(file) ==
    [columns |-> file.header,
     dtypes |-> [j \in DOMAIN file.header |-> "Utf8"],
     rows |-> [i \in DOMAIN file.lines |->
                 [j \in DOMAIN file.header |->
                    IF file.lines[i][j] = "" THEN <<>> ELSE <<file.lines[i][j]>>]]]

\* DataFrame.rename(mapping): the new column names; Polars raises a
\* DuplicateError when two columns end up with the same name.
RenamedColumns(df, mapping) ==
    [j \in DOMAIN df.columns |->
        IF df.columns[j] \in DOMAIN mapping THEN mapping[df.columns[j]] ELSE df.columns[j]]

RenameRaises(df, mapping) == HasDuplicates(RenamedColumns(df, mapping))

Rename(df, mapping) == [df EXCEPT !.columns = RenamedColumns(df, mapping)]

\* DataFrame.with_columns(expr.alias(name)): the column is replaced when it
\* exists and appended otherwise; values[i] is the new cell of row i.
WithColumn(df, name, dtype, values) ==
    IF name \in Range(df.columns)
    THEN LET k == IndexOf(df.columns, name)
         IN [df EXCEPT !.dtypes[k] = dtype,
                       !.rows = [i \in DOMAIN df.rows |-> [df.rows[i] EXCEPT ![k] = values[i]]]]
    ELSE [columns |-> Append(df.columns, name),
          dtypes |-> Append(df.dtypes, dtype),
          rows |-> [i \in DOMAIN df.rows |-> Append(df.rows[i], values[i])]]

\* DataFrame.drop(name).
Drop(df, name) ==
    LET k == IndexOf(df.columns, name)
    IN [columns |-> RemoveAt(df.columns, k),
        dtypes |-> RemoveAt(df.dtypes, k),
        rows |-> [i \in DOMAIN df.rows |-> RemoveAt(df.rows[i], k)]]

\* DataFrame.select(names): the named columns, in the order of names.
Select(df, names) ==
    [columns |-> names,
     dtypes |-> [j \in DOMAIN names |-> df.dtypes[IndexOf(df.columns, names[j])]],
     rows |-> [i \in DOMAIN df.rows |->
                 [j \in DOMAIN names |-> df.rows[i][IndexOf(df.columns, names[j])]]]]

\* One cell cast from dtype `from` to dtype `to` with strict=False: a value
\* that cannot be converted becomes null.
CastCell(cell, from, to) ==
    IF cell = <<>> \/ from = to THEN cell
    ELSE IF from = "Utf8" /\ to = "Boolean"
         THEN IF cell[1] = "true" THEN <<TRUE>>
              ELSE IF cell[1] = "false" THEN <<FALSE>> ELSE <<>>
         ELSE IF cell[1] THEN <<"true">> ELSE <<"false">>

\* DataFrame.cast(schema, strict=False).
Cast(df, schema) ==
    [columns |-> df.columns,
     dtypes |-> [j \in DOMAIN df.columns |-> schema[df.columns[j]]],
     rows |-> [i \in DOMAIN df.rows |->
                 [j \in DOMAIN df.columns |->
                    CastCell(df.rows[i][j], df.dtypes[j], schema[df.columns[j]])]]]

\* The same expression without .str.to_lowercase().
WhenIsIn_case_sensitive(cell, words) ==
    IF cell = <<>> THEN <<FALSE>>
    ELSE IF cell[1] \in words THEN <<TRUE>> ELSE <<FALSE>>

\* The bare predicate, without when/then/otherwise: a null cell stays null.
WhenIsIn_null_propagates(cell, words) ==
    IF cell = <<>> THEN <<>>
    ELSE IF lower(cell[1]) \in words THEN <<TRUE>> ELSE <<FALSE>>

\* pl.when(pl.col(c).str.to_lowercase().is_in(words)).then(True).otherwise(False)
\* on one cell: a null cell makes the predicate null, which takes otherwise.
WhenIsIn(cell, words) ==
    IF cell = <<>> THEN <<FALSE>>
    ELSE IF lower(cell[1]) \in words THEN <<TRUE>> ELSE <<FALSE>>

\* The column named name, as the sequence of its cells.
Column(df, name) == [i \in DOMAIN df.rows |-> df.rows[i][IndexOf(df.columns, name)]]

(***************************************************************************)
(* Notices shown to the user by st.info / st.warning / st.error /          *)
(* st.success; `missing` is the list of roles a missing-column notice      *)
(* names.                                                                  *)
(***************************************************************************)
Notice(level, about, missing) == [level |-> level, about |-> about, missing |-> missing]

\* The values of the scan's locals before the loops run.
NoScan ==
    [found_name |-> FALSE, found_phone |-> FALSE, mapped_cols |-> <<>>,
     send_col_source |-> <<>>, send_flag_interpretation |-> TRUE]

(***************************************************************************)
(* The default-file load, the block under                                  *)
(* `if "recipients_df" not in st.session_state`.                           *)
(***************************************************************************)
default_name_cols == <<"Name", "Tenant", "Contact">>
default_phone_cols == <<"PhoneNumber", "Phone", "Mobile">>

default_send_cols_map ==
    [k \in {"sendflag", "send?", "active", "paid", "false"} |->
        k \in {"sendflag", "send?", "active"}]

\* The first for loop, from column j on: st holds mapped_cols, found_name
\* and found_phone.
RECURSIVE default_scan_name_phone(_, _, _)
default_scan_name_phone(columns, j, st) ==
    IF j > Len(columns) THEN st
    ELSE LET col == columns[j]
             col_lower == lower(col)
         IN IF ~st.found_name /\ \E c \in Range(default_name_cols) : lower(c) = col_lower
            THEN default_scan_name_phone(columns, j + 1,
                    [st EXCEPT !.mapped_cols = (col :> "Name") @@ st.mapped_cols,
                               !.found_name = TRUE])
            ELSE IF ~st.found_phone /\ \E c \in Range(default_phone_cols) : lower(c) = col_lower
            THEN default_scan_name_phone(columns, j + 1,
                    [st EXCEPT !.mapped_cols = (col :> "PhoneNumber") @@ st.mapped_cols,
                               !.found_phone = TRUE])
            ELSE default_scan_name_phone(columns, j + 1, st)

\* The second loop without its break: the last matching column wins.
RECURSIVE default_scan_send_flag_no_break(_, _, _)
default_scan_send_flag_no_break(columns, j, st) ==
    IF j > Len(columns) THEN st
    ELSE LET col == columns[j]
             col_lower == lower(col)
         IN IF col \notin DOMAIN st.mapped_cols /\ col_lower \in DOMAIN default_send_cols_map
            THEN default_scan_send_flag_no_break(columns, j + 1,
                    [st EXCEPT !.send_col_source = <<col>>,
                               !.send_flag_interpretation = default_send_cols_map[col_lower]])
            ELSE default_scan_send_flag_no_break(columns, j + 1, st)

\* The second loop with `in` for `not in` and `or` for `and`: a column that
\* is already mapped is taken as the flag source.
RECURSIVE default_scan_send_flag_takes_mapped(_, _, _)
default_scan_send_flag_takes_mapped(columns, j, st) ==
    IF j > Len(columns) THEN st
    ELSE LET col == columns[j]
             col_lower == lower(col)
         IN IF col \in DOMAIN st.mapped_cols \/ col_lower \in DOMAIN default_send_cols_map
            THEN [st EXCEPT !.send_col_source = <<col>>,
                            !.send_flag_interpretation =
                                IF col_lower \in DOMAIN default_send_cols_map
                                THEN default_send_cols_map[col_lower] ELSE TRUE]
            ELSE default_scan_send_flag_takes_mapped(columns, j + 1, st)

\* The second for loop, from column j on, with its break at the first match.
RECURSIVE default_scan_send_flag(_, _, _)
default_scan_send_flag(columns, j, st) ==
    IF j > Len(columns) THEN st
    ELSE LET col == columns[j]
             col_lower == lower(col)
         IN IF col \notin DOMAIN st.mapped_cols /\ col_lower \in DOMAIN default_send_cols_map
            THEN [st EXCEPT !.send_col_source = <<col>>,
                            !.send_flag_interpretation = default_send_cols_map[col_lower]]
            ELSE default_scan_send_flag(columns, j + 1, st)

\* Both loops over temp_df.columns.
default_scan(columns) ==
    default_scan_send_flag(columns, 1, default_scan_name_phone(columns, 1, NoScan))

\* The SendFlag column computed from the flag-source column.
default_send_flag_values(selected_df, send_col_source, send_flag_interpretation) ==
    IF send_flag_interpretation
    THEN [i \in DOMAIN selected_df.rows |->
            WhenIsIn(Column(selected_df, send_col_source)[i], {"true", "1", "yes", "y"})]
    ELSE [i \in DOMAIN selected_df.rows |->
            WhenIsIn(Column(selected_df, send_col_source)[i], {"false", "0", "no", "n"})]

\* selected_df after the `if send_col_source:` statement (both branches),
\* given the renamed frame.
default_with_send_flag(renamed, sc) ==
    IF sc.send_col_source # <<>>
    THEN LET src == sc.send_col_source[1]
             flagged == WithColumn(renamed, "SendFlag", "Boolean",
                           default_send_flag_values(renamed, src, sc.send_flag_interpretation))
         IN IF src # "SendFlag" /\ src \in Range(flagged.columns)
            THEN Drop(flagged, src)
            ELSE flagged
    ELSE WithColumn(renamed, "SendFlag", "Boolean", [i \in DOMAIN renamed.rows |-> <<TRUE>>])

\* The list built with elif: only the first missing role is named.
default_missing_first_only(sc) ==
    IF ~sc.found_name THEN <<"Name">> ELSE <<"PhoneNumber">>

\* The list `missing` of the else branch.
default_missing(sc) ==
    (IF ~sc.found_name THEN <<"Name">> ELSE <<>>)
        \o (IF ~sc.found_phone THEN <<"PhoneNumber">> ELSE <<>>)

\* The except branch: the frame assigned to recipients_df after an exception;
\* temp_df is the frame read before it (the empty frame when read_csv raised).
default_except(temp_df) == EmptyFrame

\* The else branch of `if found_name and found_phone`: the frame assigned.
default_on_missing(temp_df) == EmptyFrame

\* The whole try/except of the default-file load on `file`: the outcome, the
\* frame assigned to st.session_state.recipients_df, the notices and the
\* scan's locals.
default_load(file) ==
    IF ~file.exists
    THEN [outcome |-> "no_file", df |-> EmptyFrame, scan |-> NoScan, missing |-> <<>>,
          notices |-> <<Notice("info", "no_file", <<>>)>>]
    ELSE IF ~file.parses
    THEN [outcome |-> "error", df |-> default_except(EmptyFrame), scan |-> NoScan,
          missing |-> <<>>,
          notices |-> <<Notice("error", "exception", <<>>)>>]
    ELSE LET temp_df == read_csv(file)
             sc == default_scan(temp_df.columns)
         IN IF sc.found_name /\ sc.found_phone
            THEN IF RenameRaises(temp_df, sc.mapped_cols)
                 THEN [outcome |-> "error", df |-> default_except(temp_df), scan |-> sc,
                       missing |-> <<>>,
                       notices |-> <<Notice("error", "exception", <<>>)>>]
                 ELSE LET selected_df == default_with_send_flag(Rename(temp_df, sc.mapped_cols), sc)
                      IN [outcome |-> "stored",
                          df |-> Cast(Select(selected_df, schema_columns), recipients_schema),
                          scan |-> sc, missing |-> <<>>,
                          notices |-> IF sc.send_col_source = <<>>
                                      THEN <<Notice("warning", "default_flag", <<>>)>>
                                      ELSE <<>>]
            ELSE [outcome |-> "missing", df |-> default_on_missing(temp_df), scan |-> sc,
                  missing |-> default_missing(sc),
                  notices |-> <<Notice("warning", "missing", default_missing(sc))>>]

\* The data editor's write-back at the end of every script run, when the user
\* edited nothing in that run: the shown frame, cast to the schema again.
editor_write_back(df) == Cast(df, recipients_schema)

\* What a script run leaves in `run`.
RunRecord(path, file, r) ==
    [path |-> path, file |-> file, outcome |-> r.outcome, scan |-> r.scan,
     missing |-> r.missing, notices |-> r.notices]

\* First script run of a session: the default file is loaded.
LoadDefault(file) ==
    /\ recipients_df = <<>>
    /\ LET r == default_load(file)
       IN /\ recipients_df' = <<editor_write_back(r.df)>>
          /\ run' = RunRecord("default", file, r)

(***************************************************************************)
(* The upload path, the block under `if uploaded_file is not None`.        *)
(***************************************************************************)
upload_name_cols == <<"Name", "Tenant", "Contact">>
upload_phone_cols == <<"PhoneNumber", "Phone", "Mobile">>

\* The upload path's map with paid taken for a flag that means send.
upload_send_cols_map_paid_positive ==
    [k \in {"sendflag", "send?", "active", "paid", "false"} |->
        k \in {"sendflag", "send?", "active", "paid"}]

upload_send_cols_map ==
    [k \in {"sendflag", "send?", "active", "paid", "false"} |->
        k \in {"sendflag", "send?", "active"}]

\* The first for loop over new_df.columns, from column j on.
RECURSIVE upload_scan_name_phone(_, _, _)
upload_scan_name_phone(columns, j, st) ==
    IF j > Len(columns) THEN st
    ELSE LET col == columns[j]
             col_lower == lower(col)
         IN IF ~st.found_name /\ \E c \in Range(upload_name_cols) : lower(c) = col_lower
            THEN upload_scan_name_phone(columns, j + 1,
                    [st EXCEPT !.mapped_cols = (col :> "Name") @@ st.mapped_cols,
                               !.found_name = TRUE])
            ELSE IF ~st.found_phone /\ \E c \in Range(upload_phone_cols) : lower(c) = col_lower
            THEN upload_scan_name_phone(columns, j + 1,
                    [st EXCEPT !.mapped_cols = (col :> "PhoneNumber") @@ st.mapped_cols,
                               !.found_phone = TRUE])
            ELSE upload_scan_name_phone(columns, j + 1, st)

\* The second for loop over new_df.columns, with its break at the first match.
RECURSIVE upload_scan_send_flag(_, _, _)
upload_scan_send_flag(columns, j, st) ==
    IF j > Len(columns) THEN st
    ELSE LET col == columns[j]
             col_lower == lower(col)
         IN IF col \notin DOMAIN st.mapped_cols /\ col_lower \in DOMAIN upload_send_cols_map
            THEN [st EXCEPT !.send_col_source = <<col>>,
                            !.send_flag_interpretation = upload_send_cols_map[col_lower]]
            ELSE upload_scan_send_flag(columns, j + 1, st)

upload_scan(columns) ==
    upload_scan_send_flag(columns, 1, upload_scan_name_phone(columns, 1, NoScan))

upload_send_flag_values(selected_df, send_col_source, send_flag_interpretation) ==
    IF send_flag_interpretation
    THEN [i \in DOMAIN selected_df.rows |->
            WhenIsIn(Column(selected_df, send_col_source)[i], {"true", "1", "yes", "y"})]
    ELSE [i \in DOMAIN selected_df.rows |->
            WhenIsIn(Column(selected_df, send_col_source)[i], {"false", "0", "no", "n"})]

upload_with_send_flag(renamed, sc) ==
    IF sc.send_col_source # <<>>
    THEN LET src == sc.send_col_source[1]
             flagged == WithColumn(renamed, "SendFlag", "Boolean",
                           upload_send_flag_values(renamed, src, sc.send_flag_interpretation))
         IN IF src # "SendFlag" /\ src \in Range(flagged.columns)
            THEN Drop(flagged, src)
            ELSE flagged
    ELSE WithColumn(renamed, "SendFlag", "Boolean", [i \in DOMAIN renamed.rows |-> <<TRUE>>])

upload_missing(sc) ==
    (IF ~sc.found_name THEN <<"Name">> ELSE <<>>)
        \o (IF ~sc.found_phone THEN <<"PhoneNumber">> ELSE <<>>)

\* An except branch that leaves the half-built frame in the session: the rows
\* read so far, their names and phone numbers not filled in yet.
upload_except_partial(current, new_df) ==
    [EmptyFrame EXCEPT !.rows = [i \in DOMAIN new_df.rows |-> <<<<>>, <<>>, <<TRUE>>>>]]

\* An except branch that resets the table, as the default-file load does.
upload_except_empties(current, new_df) == EmptyFrame

\* An else branch that resets the table, as the default-file load does.
upload_on_missing_empties(current, new_df) == EmptyFrame

\* The except branch assigns nothing: recipients_df keeps the frame `current`;
\* new_df is the frame read before the exception (the empty frame when
\* read_csv raised).
upload_except(current, new_df) == current

\* The else branch of `if found_name and found_phone` assigns nothing.
upload_on_missing(current, new_df) == current

\* The whole try/except of the upload path on `file`, the session holding
\* the frame `current`: the outcome, the frame st.session_state.recipients_df
\* holds afterwards, the notices and the scan's locals.
upload_process(file, current) ==
    IF ~file.parses
    THEN [outcome |-> "error", df |-> upload_except(current, EmptyFrame), scan |-> NoScan,
          missing |-> <<>>,
          notices |-> <<Notice("error", "exception", <<>>)>>]
    ELSE LET new_df == read_csv(file)
             sc == upload_scan(new_df.columns)
         IN IF sc.found_name /\ sc.found_phone
            THEN IF RenameRaises(new_df, sc.mapped_cols)
                 THEN [outcome |-> "error", df |-> upload_except(current, new_df), scan |-> sc,
                       missing |-> <<>>,
                       notices |-> <<Notice("error", "exception", <<>>)>>]
                 ELSE LET selected_df == upload_with_send_flag(Rename(new_df, sc.mapped_cols), sc)
                      IN [outcome |-> "stored",
                          df |-> Cast(Select(selected_df, schema_columns), recipients_schema),
                          scan |-> sc, missing |-> <<>>,
                          notices |-> (IF sc.send_col_source = <<>>
                                       THEN <<Notice("warning", "default_flag", <<>>)>>
                                       ELSE <<>>)
                                      \o <<Notice("success", "processed", <<>>)>>]
            ELSE [outcome |-> "missing", df |-> upload_on_missing(current, new_df), scan |-> sc,
                  missing |-> upload_missing(sc),
                  notices |-> <<Notice("error", "missing", upload_missing(sc))>>]

\* A later script run with "Upload New CSV" chosen and a file in the uploader.
Upload(file) ==
    /\ recipients_df # <<>>
    /\ file.exists
    /\ LET r == upload_process(file, recipients_df[1])
       IN /\ recipients_df' = <<editor_write_back(r.df)>>
          /\ run' = RunRecord("upload", file, r)

(***************************************************************************)
(* The save button, the block under                                        *)
(* `if st.button("Save Recipients to CSV", ...)`.                          *)
(***************************************************************************)

\* write_csv with null_value="null": a null cell is written as a word.
write_csv_null_as_text(df) ==
    CsvFile(df.columns,
            [i \in DOMAIN df.rows |->
                [j \in DOMAIN df.columns |->
                    IF df.rows[i][j] = <<>> THEN "null"
                    ELSE IF df.dtypes[j] = "Boolean"
                         THEN IF df.rows[i][j][1] THEN "true" ELSE "false"
                         ELSE df.rows[i][j][1]]])

\* DataFrame.write_csv(path): the header line, then one line per row; a null
\* cell is written as an empty field and a boolean as true or false.
write_csv(df) ==
    CsvFile(df.columns,
            [i \in DOMAIN df.rows |->
                [j \in DOMAIN df.columns |->
                    IF df.rows[i][j] = <<>> THEN ""
                    ELSE IF df.dtypes[j] = "Boolean"
                         THEN IF df.rows[i][j][1] THEN "true" ELSE "false"
                         ELSE df.rows[i][j][1]]])

\* DataFrame.is_empty(): the frame has no rows.
is_empty(df) == df.rows = <<>>

\* The body of the button's if statement on current_df, the file `on_disk`
\* being at save_path; write_ok is whether write_csv returns without raising.
save_recipients(current_df, on_disk, write_ok) ==
    IF ~is_empty(current_df)
    THEN IF write_ok
         THEN [outcome |-> "saved", file |-> write_csv(current_df),
               notices |-> <<Notice("success", "saved", <<>>)>>]
         ELSE [outcome |-> "save_failed", file |-> on_disk,
               notices |-> <<Notice("error", "save_failed", <<>>)>>]
    ELSE [outcome |-> "nothing_to_save", file |-> on_disk,
          notices |-> <<Notice("warning", "empty", <<>>)>>]

\* A script run in which the save button was clicked and the list below is
\* used as it is: the editor's write-back, then the button's block.
Save(write_ok) ==
    /\ recipients_df # <<>>
    /\ LET current_df == editor_write_back(recipients_df[1])
           r == save_recipients(current_df, disk, write_ok)
       IN /\ recipients_df' = <<current_df>>
          /\ disk' = r.file
          /\ saved' = IF r.outcome = "save_failed" THEN saved ELSE <<current_df>>
          /\ run' = [path |-> "save", file |-> r.file, outcome |-> r.outcome,
                     scan |-> NoScan, missing |-> <<>>, notices |-> r.notices]

(***************************************************************************)
(* The dispatcher, src/src/main.py.                                        *)
(***************************************************************************)

\* The lines `for _, tenant in enumerate(tenants)` iterates over: the header
\* line is the first of them.
text_lines(file) == <<file.header>> \o file.lines

\* tenant.split(","): the fields of a line; the last one ends with the
\* line's newline.
split(line) == [j \in DOMAIN line |-> [text |-> line[j], newline |-> j = Len(line)]]

\* str.strip() of a field: without the newline.
strip(field) == field.text

\* field == word, for a word without a newline.
equals(field, word) == field.text = word /\ ~field.newline

\* The condition of main()'s if statement: position 3 is tenant_info[2].
selected_for_send(tenant_info) ==
    Len(tenant_info) > 3 /\ equals(tenant_info[3], "FALSE")

\* send_message(phone_number, name) for the text line k: "skipped" without a
\* phone number, "raised" when Client(...) raises on the credentials of the
\* settings, and otherwise the call of client.messages.create, which is
\* "sent" or, when it raises, "failed"; the except clause swallows that.
send_message(phone_number, name, k, credentials_ok, create_ok) ==
    IF phone_number = ""
    THEN [result |-> "skipped", calls |-> <<>>]
    ELSE IF ~credentials_ok
    THEN [result |-> "raised", calls |-> <<>>]
    ELSE [result |-> IF create_ok THEN "sent" ELSE "failed",
          calls |-> <<[line |-> k, to |-> phone_number, name |-> name,
                       delivered |-> create_ok]>>]

NotStarted(file, credentials_ok) ==
    [file |-> file, credentials_ok |-> credentials_ok, line |-> 0, status |-> "idle"]

\* open(spreadsheet, "r"): raises when the file does not exist.
MainOpen ==
    /\ main_run.status = "idle"
    /\ main_run' = [main_run EXCEPT
                       !.status = IF main_run.file.exists THEN "running" ELSE "raised"]
    /\ UNCHANGED <<outbox, notMainVars>>

\* One iteration of main()'s for loop.
MainLine(create_ok) ==
    /\ main_run.status = "running"
    /\ UNCHANGED notMainVars
    /\ LET k == main_run.line + 1
           tenant_info == split(text_lines(main_run.file)[k])
           last == k = Len(text_lines(main_run.file))
       IN IF selected_for_send(tenant_info)
          THEN LET r == send_message(strip(tenant_info[4]), tenant_info[1].text, k,
                                     main_run.credentials_ok, create_ok)
               IN /\ outbox' = outbox \o r.calls
                  /\ main_run' = [main_run EXCEPT
                                     !.line = k,
                                     !.status = IF r.result = "raised" THEN "raised"
                                                ELSE IF last THEN "done" ELSE "running"]
          ELSE /\ outbox' = outbox
               /\ main_run' = [main_run EXCEPT !.line = k,
                                               !.status = IF last THEN "done" ELSE "running"]

(***************************************************************************)
(* The worker tasks, src/src/worker.py.                                    *)
(***************************************************************************)

\* The placeholder list of send_all_reminders_task.
recipients_to_send == <<1, 2, 3>>

\* Bounds of the pool model: the coroutines that call the pool functions and
\* the pools create_pool is asked for.
MaxCallers == 2
MaxPools == 2

\* Bound of the API model: the POST /send/trigger requests.
MaxRequests == 2

\* A job in the arq queue.
Job(function, recipient_id) ==
    [function |-> function, recipient_id |-> recipient_id, status |-> "queued"]

\* The first job of the queue that no worker has taken yet: 0 when none.
first_queued(function) ==
    LET waiting == {k \in DOMAIN queue : queue[k].function = function
                                         /\ queue[k].status = "queued"}
    IN IF waiting = {} THEN 0 ELSE CHOOSE k \in waiting : \A m \in waiting : k <= m

\* The worker takes a send_all_reminders_task job: the task runs up to its
\* for loop.
TaskStart ==
    /\ task_run.status = "idle"
    /\ first_queued("send_all_reminders_task") # 0
    /\ queue' = [queue EXCEPT ![first_queued("send_all_reminders_task")].status = "complete"]
    /\ task_run' = [next |-> 1, status |-> "running"]
    /\ UNCHANGED notTaskVars

\* One iteration of the for loop of send_all_reminders_task; when
\* enqueue_job raises, the except clause around the loop logs the error and
\* the task returns.
TaskEnqueue(enqueue_ok) ==
    /\ task_run.status = "running"
    /\ UNCHANGED notTaskVars
    /\ IF enqueue_ok
       THEN /\ queue' = Append(queue, Job("send_single_reminder_task",
                                          recipients_to_send[task_run.next]))
            /\ task_run' = [next |-> task_run.next + 1,
                            status |-> IF task_run.next = Len(recipients_to_send)
                                       THEN "done" ELSE "running"]
       ELSE /\ queue' = queue
            /\ task_run' = [task_run EXCEPT !.status = "error_logged"]

\* The worker runs a send_single_reminder_task job: the placeholder logs and
\* returns.
send_single_reminder_task ==
    /\ first_queued("send_single_reminder_task") # 0
    /\ queue' = [queue EXCEPT ![first_queued("send_single_reminder_task")].status = "complete"]
    /\ UNCHANGED <<task_run, notTaskVars>>

(***************************************************************************)
(* get_arq_pool and close_arq_pool, src/src/worker.py.  A coroutine runs   *)
(* without interruption from one await to the next; at `await` any other   *)
(* coroutine may run.                                                      *)
(***************************************************************************)
Callers == 1..MaxCallers

\* A caller that is in no call.
NoCall == [op |-> "none", pc |-> "idle", pool |-> 0, result |-> 0, result_state |-> "none"]

\* The calls of get_arq_pool suspended in `await create_pool(...)`.
Creating == {c \in Callers : calls[c].op = "get" /\ calls[c].pc = "awaiting"}

\* get_arq_pool up to its await: with the global set, the whole call, which
\* returns the global; with the global None, the call of create_pool.
GetBegin(c) ==
    /\ calls[c].pc # "awaiting"
    /\ IF arq_redis_pool = 0
       THEN /\ Len(pools) + Cardinality(Creating) < MaxPools
            /\ epoch.creates < MaxPools
            /\ calls' = [calls EXCEPT ![c] = [NoCall EXCEPT !.op = "get", !.pc = "awaiting"]]
            /\ epoch' = [epoch EXCEPT !.creates = @ + 1]
       ELSE /\ calls' = [calls EXCEPT ![c] =
                           [op |-> "get", pc |-> "returned", pool |-> 0,
                            result |-> arq_redis_pool,
                            result_state |-> pools[arq_redis_pool].state]]
            /\ epoch' = [epoch EXCEPT !.returned = @ \cup {arq_redis_pool}]
    /\ UNCHANGED <<arq_redis_pool, pools>>

\* get_arq_pool from its await on: create_pool returns a new pool, which is
\* assigned to the global and returned; or create_pool raises.
GetResume(c, create_ok) ==
    /\ calls[c].op = "get" /\ calls[c].pc = "awaiting"
    /\ IF create_ok
       THEN LET new == Len(pools) + 1
            IN /\ pools' = Append(pools, [state |-> "open", closes |-> 0])
               /\ arq_redis_pool' = new
               /\ calls' = [calls EXCEPT ![c] =
                              [op |-> "get", pc |-> "returned", pool |-> 0,
                               result |-> new, result_state |-> "open"]]
               /\ epoch' = [epoch EXCEPT !.returned = @ \cup {new}]
       ELSE /\ calls' = [calls EXCEPT ![c].pc = "raised"]
            /\ UNCHANGED <<arq_redis_pool, pools, epoch>>

\* close_arq_pool up to its await: with the global set, close() is called on
\* that pool; with the global None the call returns.
CloseBegin(c) ==
    /\ calls[c].pc # "awaiting"
    /\ IF arq_redis_pool # 0
       THEN /\ pools' = [pools EXCEPT ![arq_redis_pool] =
                           [state |-> IF @.state = "closed" THEN "closed" ELSE "closing",
                            closes |-> @.closes + 1]]
            /\ calls' = [calls EXCEPT ![c] =
                           [NoCall EXCEPT !.op = "close", !.pc = "awaiting",
                                          !.pool = arq_redis_pool]]
       ELSE /\ calls' = [calls EXCEPT ![c] = [NoCall EXCEPT !.op = "close", !.pc = "returned"]]
            /\ UNCHANGED pools
    /\ UNCHANGED <<arq_redis_pool, epoch>>

\* close_arq_pool from its await on: the pool is closed and the global is
\* set to None.
CloseResume(c) ==
    /\ calls[c].op = "close" /\ calls[c].pc = "awaiting"
    /\ pools' = [pools EXCEPT ![calls[c].pool].state = "closed"]
    /\ arq_redis_pool' = 0
    /\ calls' = [calls EXCEPT ![c].pc = "returned"]
    /\ epoch' = [creates |-> 0, returned |-> {}]

\* The module as imported: no pool, nobody in a call.
PoolIdle ==
    /\ arq_redis_pool = 0
    /\ pools = <<>>
    /\ calls = [c \in Callers |-> NoCall]
    /\ epoch = [creates |-> 0, returned |-> {}]

\* The API is not started and has no request.
ApiIdle ==
    /\ app_state = -1
    /\ lifespan = "off"
    /\ requests = <<>>

(***************************************************************************)
(* The API, src/src/api.py: the lifespan context manager, which is caller  *)
(* 1 of the pool functions, and the handler of POST /send/trigger.         *)
(***************************************************************************)

\* The response of a request: the status code, what it says and the job id.
Response(status, detail, job_id) == [status |-> status, detail |-> detail, job_id |-> job_id]

NoResponse == Response(0, "none", 0)

\* A handler that answers with the success response whatever enqueue_job
\* returned.
trigger_response_ignores_none(job) == Response(200, "Send process triggered", job)

\* The end of trigger_send: job is the id of the job enqueue_job returned, 0
\* for None.
trigger_response(job) ==
    IF job # 0
    THEN Response(200, "Send process triggered", job)
    ELSE Response(500, "Failed to enqueue background task", 0)

\* lifespan up to the await in get_arq_pool.
LifespanStartup ==
    /\ lifespan \in {"off", "stopped"}
    /\ GetBegin(1)
    /\ lifespan' = IF calls'[1].pc = "returned" THEN "serving" ELSE "starting"
    /\ app_state' = IF calls'[1].pc = "returned" THEN calls'[1].result ELSE app_state
    /\ UNCHANGED requests

\* lifespan from that await to the yield: the pool is put in app.state; when
\* create_pool raises, the startup fails.
LifespanStarted(create_ok) ==
    /\ lifespan = "starting"
    /\ GetResume(1, create_ok)
    /\ lifespan' = IF create_ok THEN "serving" ELSE "failed"
    /\ app_state' = IF create_ok THEN calls'[1].result ELSE app_state
    /\ UNCHANGED requests

\* lifespan after the yield, up to the await in close_arq_pool.
LifespanShutdown ==
    /\ lifespan = "serving"
    /\ CloseBegin(1)
    /\ lifespan' = IF calls'[1].pc = "returned" THEN "stopped" ELSE "stopping"
    /\ app_state' = IF calls'[1].pc = "returned" THEN 0 ELSE app_state
    /\ UNCHANGED requests

\* lifespan from that await to its end: app.state.arq_pool = None.
LifespanStopped ==
    /\ lifespan = "stopping"
    /\ CloseResume(1)
    /\ lifespan' = "stopped"
    /\ app_state' = 0
    /\ UNCHANGED requests

\* A request arrives: the dependency reads app.state.arq_pool, which raises
\* while the attribute is not set, and trigger_send runs up to the await of
\* enqueue_job.
TriggerBegin ==
    /\ Len(requests) < MaxRequests
    /\ requests' = Append(requests,
          IF app_state = -1
          THEN [pc |-> "done", seen |-> app_state, enqueued |-> 0,
                response |-> Response(500, "Internal Server Error", 0)]
          ELSE IF app_state = 0
          THEN [pc |-> "done", seen |-> app_state, enqueued |-> 0,
                response |-> Response(500, "Task queue not available", 0)]
          ELSE [pc |-> "enqueuing", seen |-> app_state, enqueued |-> 0,
                response |-> NoResponse])
    /\ UNCHANGED <<queue, app_state, lifespan>>

\* trigger_send from the await on: enqueue_job returned a job, returned None
\* or raised.
TriggerResume(r, outcome) ==
    /\ requests[r].pc = "enqueuing"
    /\ IF outcome = "job"
       THEN /\ queue' = Append(queue, Job("send_all_reminders_task", 0))
            /\ requests' = [requests EXCEPT ![r] =
                              [pc |-> "done", seen |-> @.seen, enqueued |-> @.enqueued + 1,
                               response |-> trigger_response(Len(queue) + 1)]]
       ELSE IF outcome = "none"
       THEN /\ queue' = queue
            /\ requests' = [requests EXCEPT ![r] =
                              [pc |-> "done", seen |-> @.seen, enqueued |-> @.enqueued,
                               response |-> trigger_response(0)]]
       ELSE /\ queue' = queue
            /\ requests' = [requests EXCEPT ![r] =
                              [pc |-> "done", seen |-> @.seen, enqueued |-> @.enqueued,
                               response |-> Response(500, "Internal Server Error", 0)]]
    /\ UNCHANGED <<app_state, lifespan>>

\* main() is not running.
Off == [file |-> NoFile, credentials_ok |-> TRUE, line |-> 0, status |-> "off"]

\* Neither the dispatcher nor the worker runs.
DispatchIdle ==
    /\ main_run = Off
    /\ outbox = <<>>
    /\ task_run = [next |-> 1, status |-> "off"]
    /\ queue = <<>>

(***************************************************************************)
(* The schedule tab, the block under `with tab_schedule`.                  *)
(***************************************************************************)
schedule_options == <<"End of Month", "Specific Day of Month", "Manual Trigger Only">>

\* The values the user gives to the two number inputs.
DaysBeforeChoices == {0, 1, 3, 10}
DayOfMonthChoices == {1, 2, 15, 31}

\* st.session_state.schedule as the script sets it when the key is absent.
initial_schedule == [type |-> "End of Month", days_before_end |-> 3, day_of_month |-> 0]

\* schedule_options.index(current_schedule_type) under try/except ValueError:
\* the position of the stored type, or that of "Manual Trigger Only".
schedule_index_of(current_schedule_type) ==
    IF current_schedule_type \in Range(schedule_options)
    THEN [index |-> IndexOf(schedule_options, current_schedule_type), fell_back |-> FALSE]
    ELSE [index |-> IndexOf(schedule_options, "Manual Trigger Only"), fell_back |-> TRUE]

\* st.selectbox(..., index=schedule_index, key="schedule_type_select"): on
\* its first drawing the option at index; later the option the user picked
\* in the browser, or the one already selected.  When the index argument
\* differs from that of the run before, Streamlit either keeps the widget
\* with its value or takes it for a new widget, which shows the option at
\* index: keeps_state says which.
selectbox(widget, schedule_index, pick, keeps_state) ==
    IF widget.value = "unset" THEN schedule_options[schedule_index]
    ELSE IF schedule_index # widget.index /\ ~keeps_state
    THEN schedule_options[schedule_index]
    ELSE IF pick = "same" THEN widget.value ELSE pick

\* The if/elif/else on schedule_type: the dictionary after the write-back.
\* days_in and day_in are what the number inputs return.
schedule_write_back(sched, schedule_type, days_in, day_in) ==
    IF schedule_type = "End of Month"
    THEN [sched EXCEPT !.type = "End of Month", !.days_before_end = days_in]
    ELSE IF schedule_type = "Specific Day of Month"
    THEN [sched EXCEPT !.type = "Specific Day", !.day_of_month = day_in]
    ELSE [sched EXCEPT !.type = "Manual"]

\* A script run, as far as the schedule tab goes; the block reads and writes
\* st.session_state.schedule and its widgets only.  pick is the option the
\* user picked in the select box since the run before ("same" for none),
\* days and day what the user typed in the number inputs (-1 for nothing).
ScheduleRun(pick, days, day, keeps_state) ==
    /\ (pick # "same" \/ days # -1 \/ day # -1) => schedule_type_select.value # "unset"
    /\ LET current_schedule_type == schedule.type
           lookup == schedule_index_of(current_schedule_type)
           schedule_type == selectbox(schedule_type_select, lookup.index, pick, keeps_state)
           current_days_before == schedule.days_before_end
           current_day_of_month == IF schedule.day_of_month = 0 THEN 1
                                   ELSE schedule.day_of_month
           days_before == IF days = -1 THEN current_days_before ELSE days
           day_of_month == IF day = -1 THEN current_day_of_month ELSE day
       IN /\ schedule' = schedule_write_back(schedule, schedule_type, days_before, day_of_month)
          /\ schedule_type_select' = [value |-> schedule_type, index |-> lookup.index]
          /\ schedule_run' = [index |-> lookup.index, fell_back |-> lookup.fell_back,
                              selected |-> schedule_type]

\* The session before its first script run has gone through the tab.
ScheduleIdle ==
    /\ schedule = initial_schedule
    /\ schedule_type_select = [value |-> "unset", index |-> 0]
    /\ schedule_run = [index |-> 0, fell_back |-> FALSE, selected |-> "unset"]

\* Nothing but the recipient handling of the script runs.
ElsewhereIdle == ScheduleIdle /\ DispatchIdle /\ PoolIdle /\ ApiIdle

(***************************************************************************)
(* The input files.                                                        *)
(***************************************************************************)

\* The headers of k distinct columns.
RECURSIVE HeadersOfLen(_)
HeadersOfLen(k) ==
    IF k = 0 THEN {<<>>}
    ELSE UNION {{Append(h, c) : c \in ColNames \ Range(h)} : h \in HeadersOfLen(k - 1)}

Headers == UNION {HeadersOfLen(k) : k \in 1..MaxCols}

\* A line of n fields: the field texts in rotation, starting at offset s.
PoolRow(n, s) == [j \in 1..n |-> CellText[((s + j - 1) % Len(CellText)) + 1]]

\* The lines of a file of n columns: k consecutive lines of the rotation.
Lines(n) ==
    {[i \in 1..k |-> PoolRow(n, s + i - 1)] : k \in 0..MaxRows, s \in 0..(Len(CellText) - 1)}

Files ==
    {NoFile, BadCsv} \cup UNION {{CsvFile(h, l) : l \in Lines(Len(h))} : h \in Headers}

\* The files of a session: a few headers, each with no, one and two lines.
SessionHeaders ==
    {<<"Name", "PHONE">>, <<"Name", "PHONE", "SendFlag">>, <<"Tenant", "PHONE", "Paid">>,
     <<"Name", "PHONE", "Paid", "SendFlag">>, <<"Tenant", "Name", "PHONE">>,
     <<"Foo", "Paid">>, <<"Name", "Foo">>, <<"PHONE", "Foo">>}

SessionLines(n) == {<<>>, <<PoolRow(n, 1)>>, <<PoolRow(n, 3), PoolRow(n, 0)>>}

SessionFiles ==
    {NoFile, BadCsv}
        \cup UNION {{CsvFile(h, l) : l \in SessionLines(Len(h))} : h \in SessionHeaders}

(***************************************************************************)
(* Spec: a session from its first script run on.                           *)
(***************************************************************************)
NoRun(outcome, file) ==
    [path |-> "none", file |-> file, outcome |-> outcome, scan |-> NoScan,
     missing |-> <<>>, notices |-> <<>>]

\* The default file is not tracked: nothing was saved and every load is
\* handed its file.
DiskIdle == disk = NoFile /\ saved = <<>>

Init ==
    /\ recipients_df = <<>>
    /\ run = NoRun("none", NoFile)
    /\ DiskIdle
    /\ ElsewhereIdle

Next ==
    \E file \in SessionFiles :
        \/ LoadDefault(file) /\ UNCHANGED <<diskVars, elsewhereVars>>
        \/ Upload(file) /\ UNCHANGED <<diskVars, elsewhereVars>>

Spec == Init /\ [][Next]_vars

(***************************************************************************)
(* SpecNormalize: one script run on a file drawn from Files, in a fresh    *)
(* session (the default-file load) or in a session whose table is empty    *)
(* (the upload path).                                                      *)
(***************************************************************************)
InitNormalize ==
    /\ recipients_df \in {<<>>, <<EmptyFrame>>}
    /\ \E file \in Files : run = NoRun("pending", file)
    /\ DiskIdle
    /\ ElsewhereIdle

NormalizeDefault ==
    run.outcome = "pending" /\ LoadDefault(run.file) /\ UNCHANGED <<diskVars, elsewhereVars>>

NormalizeUpload ==
    run.outcome = "pending" /\ Upload(run.file) /\ UNCHANGED <<diskVars, elsewhereVars>>

NextNormalize == NormalizeDefault \/ NormalizeUpload

SpecNormalize == InitNormalize /\ [][NextNormalize]_vars

(***************************************************************************)
(* SpecRoundTrip: sessions over the default file.  A session loads the     *)
(* file on disk, may take an upload, may save; a new session (the page     *)
(* opened again) starts without a table and loads the file again.          *)
(***************************************************************************)

\* The default files the sessions start from: those of SessionFiles, and
\* every choice of lines under a positive and under a negative flag column.
RoundTripFiles ==
    SessionFiles
        \cup {CsvFile(h, l) : h \in {<<"Name", "PHONE", "SendFlag">>, <<"Tenant", "PHONE", "Paid">>},
                              l \in Lines(3)}

\* The files uploaded: one without lines and one with lines.
RoundTripUploads ==
    {CsvFile(<<"Name", "PHONE">>, <<>>),
     CsvFile(<<"Tenant", "PHONE", "Paid">>, <<PoolRow(3, 1), PoolRow(3, 2)>>)}

InitRoundTrip ==
    /\ recipients_df = <<>>
    /\ run = NoRun("none", NoFile)
    /\ disk \in RoundTripFiles
    /\ saved = <<>>
    /\ ElsewhereIdle

LoadFromDisk == LoadDefault(disk) /\ UNCHANGED <<diskVars, elsewhereVars>>

UploadOver == \E file \in RoundTripUploads : Upload(file) /\ UNCHANGED <<diskVars, elsewhereVars>>

ClickSave == \E write_ok \in BOOLEAN : Save(write_ok) /\ UNCHANGED elsewhereVars

\* The browser session ends and a new one begins: st.session_state is empty.
NewSession ==
    /\ recipients_df # <<>>
    /\ recipients_df' = <<>>
    /\ run' = NoRun("none", NoFile)
    /\ UNCHANGED <<diskVars, elsewhereVars>>

NextRoundTrip == LoadFromDisk \/ UploadOver \/ ClickSave \/ NewSession

SpecRoundTrip == InitRoundTrip /\ [][NextRoundTrip]_vars

(***************************************************************************)
(* SpecDispatch: one run of the dispatcher main() over a spreadsheet, or   *)
(* one send_all_reminders_task job taken by the worker.                    *)
(***************************************************************************)

\* The texts of a spreadsheet cell under the column col.
DispatchCell(col) ==
    CASE col \in {"Paid", "FALSE"} -> {"FALSE", "TRUE", "N"}
      [] col = "PHONE" -> {"", "+15550001"}
      [] OTHER -> {"Ann"}

DispatchHeaders ==
    {<<"Tenant", "Foo", "Paid", "PHONE">>, <<"Name", "Foo", "FALSE", "PHONE">>,
     <<"Name", "PHONE", "Paid">>}

DispatchRows(h) ==
    {r \in [DOMAIN h -> {"", "+15550001", "FALSE", "TRUE", "N", "Ann"}] :
        \A j \in DOMAIN h : r[j] \in DispatchCell(h[j])}

DispatchFiles ==
    {NoFile}
        \cup UNION {{CsvFile(h, l) : l \in UNION {[1..k -> DispatchRows(h)] : k \in 0..MaxRows}} :
                      h \in DispatchHeaders}

SessionIdle ==
    /\ recipients_df = <<>>
    /\ run = NoRun("none", NoFile)
    /\ DiskIdle
    /\ ScheduleIdle

InitDispatch ==
    /\ SessionIdle
    /\ PoolIdle
    /\ ApiIdle
    /\ \/ /\ \E file \in DispatchFiles, credentials_ok \in BOOLEAN :
               main_run = NotStarted(file, credentials_ok)
          /\ outbox = <<>>
          /\ task_run = [next |-> 1, status |-> "off"]
          /\ queue = <<>>
       \/ /\ main_run = Off
          /\ outbox = <<>>
          /\ task_run = [next |-> 1, status |-> "idle"]
          /\ queue = <<Job("send_all_reminders_task", 0)>>

NextDispatch ==
    \/ MainOpen
    \/ \E create_ok \in BOOLEAN : MainLine(create_ok)
    \/ TaskStart
    \/ \E enqueue_ok \in BOOLEAN : TaskEnqueue(enqueue_ok)
    \/ send_single_reminder_task

SpecDispatch == InitDispatch /\ [][NextDispatch]_vars

(***************************************************************************)
(* SpecPool: coroutines of one process that call get_arq_pool and          *)
(* close_arq_pool in any order, each from one await to the next.           *)
(***************************************************************************)
notPoolVars == <<recipients_df, run, diskVars, scheduleVars, dispatchVars, apiVars>>

InitPool ==
    /\ SessionIdle
    /\ DispatchIdle
    /\ PoolIdle
    /\ ApiIdle

NextPool ==
    \E c \in Callers :
        \/ GetBegin(c) /\ UNCHANGED notPoolVars
        \/ \E create_ok \in BOOLEAN : GetResume(c, create_ok) /\ UNCHANGED notPoolVars
        \/ CloseBegin(c) /\ UNCHANGED notPoolVars
        \/ CloseResume(c) /\ UNCHANGED notPoolVars

SpecPool == InitPool /\ [][NextPool]_vars

(***************************************************************************)
(* SpecApi: the API process: its lifespan, started and shut down up to     *)
(* MaxPools times, and requests to POST /send/trigger arriving at any      *)
(* moment of it.                                                           *)
(***************************************************************************)
notApiVars == <<recipients_df, run, diskVars, scheduleVars, main_run, outbox, task_run>>

InitApi ==
    /\ SessionIdle
    /\ DispatchIdle
    /\ PoolIdle
    /\ ApiIdle

NextApi ==
    \/ LifespanStartup /\ UNCHANGED <<queue, notApiVars>>
    \/ \E create_ok \in BOOLEAN : LifespanStarted(create_ok) /\ UNCHANGED <<queue, notApiVars>>
    \/ LifespanShutdown /\ UNCHANGED <<queue, notApiVars>>
    \/ LifespanStopped /\ UNCHANGED <<queue, notApiVars>>
    \/ TriggerBegin /\ UNCHANGED <<poolVars, notApiVars>>
    \/ \E r \in DOMAIN requests, outcome \in {"job", "none", "raises"} :
          TriggerResume(r, outcome) /\ UNCHANGED <<poolVars, notApiVars>>

SpecApi == InitApi /\ [][NextApi]_vars

(***************************************************************************)
(* SpecSchedule: the script runs of a session, as far as the schedule tab  *)
(* goes, the user picking options and typing numbers between the runs.     *)
(***************************************************************************)
InitSchedule ==
    /\ SessionIdle
    /\ DispatchIdle
    /\ PoolIdle
    /\ ApiIdle

NextSchedule ==
    \E pick \in Range(schedule_options) \cup {"same"},
       days \in DaysBeforeChoices \cup {-1},
       day \in DayOfMonthChoices \cup {-1},
       keeps_state \in BOOLEAN :
        /\ ScheduleRun(pick, days, day, keeps_state)
        /\ UNCHANGED <<recipients_df, run, diskVars, dispatchVars, poolVars, apiVars>>

SpecSchedule == InitSchedule /\ [][NextSchedule]_vars

(***************************************************************************)
(* Properties.  The definitions below state what the                       *)
(* specification of the normaliser expects, independently of the           *)
(* operators above.                                                        *)
(***************************************************************************)
NameWords == {"name", "tenant", "contact"}
PhoneWords == {"phonenumber", "phone", "mobile"}
PositiveFlagWords == {"sendflag", "send?", "active"}
NegativeFlagWords == {"paid", "false"}

Least(S) == CHOOSE j \in S : \A k \in S : j <= k

\* The first column of header h whose lowercased name is in words: <<>> or <<c>>.
FirstColumnIn(h, words) ==
    LET hits == {j \in DOMAIN h : lower(h[j]) \in words}
    IN IF hits = {} THEN <<>> ELSE <<h[Least(hits)]>>

ExpectedNameCol(h) == FirstColumnIn(h, NameWords)
ExpectedPhoneCol(h) == FirstColumnIn(h, PhoneWords)

\* The first flag column of h among the columns not bound to name or phone.
ExpectedFlagCol(h) ==
    LET bound == Range(ExpectedNameCol(h)) \cup Range(ExpectedPhoneCol(h))
        hits == {j \in DOMAIN h : h[j] \notin bound
                                  /\ lower(h[j]) \in PositiveFlagWords \cup NegativeFlagWords}
    IN IF hits = {} THEN <<>> ELSE <<h[Least(hits)]>>

\* The cell of line i of the file in column c, as the CSV reader hands it on.
RawCell(file, i, c) ==
    LET field == file.lines[i][IndexOf(file.header, c)]
    IN IF field = "" THEN <<>> ELSE <<field>>

\* The last script run read and scanned a file.
Scanned == run.path \in {"default", "upload"} /\ run.file.parses

\* The columns the last scan bound to the role `target`.
BoundTo(target) ==
    {c \in DOMAIN run.scan.mapped_cols : run.scan.mapped_cols[c] = target}

\* The table the session holds.
Table == recipients_df[1]

\* C1: for every header, name is bound to the first name-like column and
\* phoneNumber to the first phone-like column, whatever the casing, and when
\* both exist normalisation succeeds and the stored names and phone numbers
\* are those of the first such columns, also when a later column is literally
\* called Name or PhoneNumber.
C1_FirstSynonymBoundAndStored ==
    Scanned =>
        LET h == run.file.header
        IN /\ BoundTo("Name") = Range(ExpectedNameCol(h))
           /\ BoundTo("PhoneNumber") = Range(ExpectedPhoneCol(h))
           /\ (ExpectedNameCol(h) # <<>> /\ ExpectedPhoneCol(h) # <<>>) =>
                 /\ run.outcome = "stored"
                 /\ \A i \in DOMAIN run.file.lines :
                       /\ Table.rows[i][1] = RawCell(run.file, i, ExpectedNameCol(h)[1])
                       /\ Table.rows[i][2] = RawCell(run.file, i, ExpectedPhoneCol(h)[1])

\* C2: the send-flag source is the first column, in the original order and
\* not bound to name or phone, whose lowercased header is a recognised flag
\* name; its polarity is positive for sendflag/send?/active and negative for
\* paid/false; when no column matches there is no flag source.
C2_FlagSourceIsFirstMatch ==
    Scanned =>
        LET h == run.file.header
            src == run.scan.send_col_source
        IN /\ src = ExpectedFlagCol(h)
           /\ src # <<>> =>
                 (run.scan.send_flag_interpretation <=> lower(src[1]) \in PositiveFlagWords)

\* A run on the header Name,PHONE,Paid,SendFlag took Paid, negative.
C2_Witness ==
    /\ Scanned
    /\ run.file.header = <<"Name", "PHONE", "Paid", "SendFlag">>
    /\ run.scan.send_col_source = <<"Paid">>
    /\ ~run.scan.send_flag_interpretation

\* The sendFlag expected for line i of the file: true by default without a
\* flag column, and otherwise whether the lowercased cell is in the send set
\* of the flag column's polarity.
ExpectedSendFlag(file, i) ==
    LET src == ExpectedFlagCol(file.header)
    IN IF src = <<>> THEN TRUE
       ELSE LET cell == RawCell(file, i, src[1])
                send == IF lower(src[1]) \in PositiveFlagWords
                        THEN {"true", "1", "yes", "y"}
                        ELSE {"false", "0", "no", "n"}
            IN cell # <<>> /\ lower(cell[1]) \in send

\* The complete recipient table expected for the file.
ExpectedTable(file) ==
    [columns |-> <<"Name", "PhoneNumber", "SendFlag">>,
     dtypes |-> <<"Utf8", "Utf8", "Boolean">>,
     rows |-> [i \in DOMAIN file.lines |->
                 <<RawCell(file, i, ExpectedNameCol(file.header)[1]),
                   RawCell(file, i, ExpectedPhoneCol(file.header)[1]),
                   <<ExpectedSendFlag(file, i)>> >>]]

\* The roles a header leaves unresolved, name first.
ExpectedMissing(h) ==
    (IF ExpectedNameCol(h) = <<>> THEN <<"Name">> ELSE <<>>)
        \o (IF ExpectedPhoneCol(h) = <<>> THEN <<"PhoneNumber">> ELSE <<>>)

Stored == Scanned /\ run.outcome = "stored"

\* The last run showed a notice of this level about this subject.
Noticed(r, level, about) ==
    \E k \in DOMAIN r.notices : r.notices[k].level = level /\ r.notices[k].about = about

\* C3: when a flag-source column is resolved, sendFlag of every stored row is
\* true exactly when the lowercased raw value is in the send set of the
\* polarity; an empty cell and an unrecognised word give false.
C3_FlagValueInterpretation ==
    (Stored /\ ExpectedFlagCol(run.file.header) # <<>>) =>
        \A i \in DOMAIN Table.rows \cap DOMAIN run.file.lines :
            Table.rows[i][3] = <<ExpectedSendFlag(run.file, i)>>

\* A table stored under negative polarity with a row marked to send and a
\* row whose flag cell is "maybe" marked not to send.
C3_Witness ==
    /\ Stored
    /\ ExpectedFlagCol(run.file.header) = <<"Paid">>
    /\ \E i, k \in DOMAIN Table.rows :
          /\ RawCell(run.file, i, "Paid") = <<"N">>
          /\ Table.rows[i][3] = <<TRUE>>
          /\ RawCell(run.file, k, "Paid") = <<"maybe">>
          /\ Table.rows[k][3] = <<FALSE>>

\* C4: when name and phone are resolved and no flag-source column is, the
\* default-flag warning is shown and every stored row has sendFlag true; the
\* warning is shown in no other case.
C4_DefaultFlagAndWarning ==
    Scanned =>
        LET h == run.file.header
            defaulted == /\ ExpectedNameCol(h) # <<>>
                         /\ ExpectedPhoneCol(h) # <<>>
                         /\ ExpectedFlagCol(h) = <<>>
        IN /\ defaulted =>
                 /\ Noticed(run, "warning", "default_flag")
                 /\ \A i \in DOMAIN Table.rows : Table.rows[i][3] = <<TRUE>>
           /\ Noticed(run, "warning", "default_flag") => defaulted

\* C5: when the name role or the phone role is unbound after the scan, the
\* run ends with a missing-column notice that lists exactly the unresolved
\* roles, name first, and the table holds no row of the input, whether or
\* not a flag-source column was resolved.
C5_MissingColumnsReported ==
    Scanned =>
        LET expected == ExpectedMissing(run.file.header)
        IN expected # <<>> =>
              /\ run.outcome = "missing"
              /\ run.missing = expected
              /\ \E k \in DOMAIN run.notices :
                    run.notices[k].about = "missing" /\ run.notices[k].missing = expected
              /\ Table.rows = <<>>

\* A file with lines and a flag column but neither name nor phone column.
C5_Witness ==
    /\ Scanned
    /\ run.outcome = "missing"
    /\ run.missing = <<"Name", "PhoneNumber">>
    /\ run.scan.send_col_source # <<>>
    /\ run.file.lines # <<>>
    /\ Table.rows = <<>>

\* The script run that leads to the primed state ended this way.
EndedMissing(r) == r.path \in {"default", "upload"} /\ r.outcome = "missing"
EndedParseError(r) ==
    r.path \in {"default", "upload"} /\ r.outcome = "error" /\ ~r.file.parses

\* C6 as stated: after a missing-column failure a notice is shown and the
\* session's table is the one it held before the run, on both paths.
C6_MissingKeepsTable ==
    [][EndedMissing(run') =>
          /\ \E k \in DOMAIN run'.notices : run'.notices[k].about = "missing"
          /\ recipients_df' = recipients_df]_vars

\* C6 amended: after a missing-column failure the upload path shows an error
\* and leaves the session's table as it was; the default-file load, which
\* runs only while the session holds no table, shows a warning and sets the
\* table to the empty table of the schema.
C6_MissingKeepsUploadedTable ==
    [][EndedMissing(run') =>
          IF run'.path = "upload"
          THEN Noticed(run', "error", "missing") /\ recipients_df' = recipients_df
          ELSE /\ Noticed(run', "warning", "missing")
               /\ recipients_df = <<>>
               /\ recipients_df' = <<EmptyFrame>>]_vars

\* An upload failed for a missing column while the session held rows.
C6_Witness ==
    /\ EndedMissing(run)
    /\ run.path = "upload"
    /\ Table.rows # <<>>

\* C7: a script run leaves in the session either the complete table of its
\* file, and only when it ran to the end, or the table held before or the
\* empty table: never a partial result.
C7_AllOrNothing ==
    [][run'.path \in {"default", "upload"} =>
          IF run'.outcome = "stored"
          THEN recipients_df' = <<ExpectedTable(run'.file)>>
          ELSE recipients_df' \in {recipients_df, <<EmptyFrame>>}]_vars

\* An upload with lines raised in rename while the session held rows.
C7_Witness ==
    /\ Scanned
    /\ run.outcome = "error"
    /\ run.path = "upload"
    /\ run.file.lines # <<>>
    /\ Table.rows # <<>>

\* C8 as stated: after a parse error the session holds the empty table of
\* the schema, on both paths.
C8_ParseErrorEmptiesTable ==
    EndedParseError(run) => recipients_df = <<EmptyFrame>>

\* C8 amended: after a parse error the run ends with an error notice; the
\* default-file load sets the table to the empty table of the schema and the
\* upload path leaves the session's table as it was.
C8_ParseErrorFallback ==
    [][EndedParseError(run') =>
          /\ Noticed(run', "error", "exception")
          /\ IF run'.path = "upload"
             THEN recipients_df' = recipients_df
             ELSE recipients_df' = <<EmptyFrame>>]_vars

\* An unparseable upload while the session held rows.
C8_Witness ==
    /\ EndedParseError(run)
    /\ run.path = "upload"
    /\ Table.rows # <<>>

\* C9 as stated: every stored record has a name, a phone number and a
\* boolean sendFlag, none of them null.
C9_AllFieldsPopulated ==
    Stored =>
        \A i \in DOMAIN Table.rows :
            /\ Table.rows[i][1] # <<>>
            /\ Table.rows[i][2] # <<>>
            /\ Table.rows[i][3] \in {<<TRUE>>, <<FALSE>>}

\* C9 amended: every stored record has the three fields and its sendFlag is
\* a boolean, never null; its name and its phone number are null exactly
\* when the input field is empty.
C9_SendFlagNeverNull ==
    Stored =>
        /\ Table.columns = <<"Name", "PhoneNumber", "SendFlag">>
        /\ \A i \in DOMAIN Table.rows \cap DOMAIN run.file.lines :
              /\ Len(Table.rows[i]) = 3
              /\ Table.rows[i][3] \in {<<TRUE>>, <<FALSE>>}
              /\ Table.rows[i][1] = <<>> <=>
                    RawCell(run.file, i, ExpectedNameCol(run.file.header)[1]) = <<>>
              /\ Table.rows[i][2] = <<>> <=>
                    RawCell(run.file, i, ExpectedPhoneCol(run.file.header)[1]) = <<>>

\* A stored table with a row whose flag cell was empty, marked not to send,
\* and a row whose name is null.
C9_Witness ==
    /\ Stored
    /\ ExpectedFlagCol(run.file.header) # <<>>
    /\ \E i, k \in DOMAIN Table.rows :
          /\ RawCell(run.file, i, ExpectedFlagCol(run.file.header)[1]) = <<>>
          /\ Table.rows[i][3] = <<FALSE>>
          /\ Table.rows[k][1] = <<>>

\* C10: a stored table has one record per input line, in the same order,
\* with exactly the fields name, phoneNumber and sendFlag; record i carries
\* the name and the phone number of line i unchanged.
C10_OneRecordPerLineInOrder ==
    Stored =>
        /\ Table.columns = <<"Name", "PhoneNumber", "SendFlag">>
        /\ Table.dtypes = <<"Utf8", "Utf8", "Boolean">>
        /\ Len(Table.rows) = Len(run.file.lines)
        /\ \A i \in DOMAIN Table.rows :
              /\ Len(Table.rows[i]) = 3
              /\ Table.rows[i][1] = RawCell(run.file, i, ExpectedNameCol(run.file.header)[1])
              /\ Table.rows[i][2] = RawCell(run.file, i, ExpectedPhoneCol(run.file.header)[1])

\* Two different lines of four columns, one of them neither name, phone nor
\* flag and one a flag column other than SendFlag, stored in order with a
\* name in capitals kept as written.
C10_Witness ==
    /\ Stored
    /\ Len(run.file.header) = 4
    /\ "Foo" \in Range(run.file.header)
    /\ ExpectedFlagCol(run.file.header) = <<"Paid">>
    /\ Len(Table.rows) = 2
    /\ Table.rows[1] # Table.rows[2]
    /\ Table.rows[1][1] = <<"Yes">>
    /\ Table.rows[2][1] = <<"N">>

\* C11: for every header, the columns bound to the name role, to the
\* phoneNumber role and to the flag-source role are pairwise distinct: no
\* column is used for two roles.
C11_RolesPairwiseDistinct ==
    Scanned =>
        LET name_cols == BoundTo("Name")
            phone_cols == BoundTo("PhoneNumber")
            flag_cols == Range(run.scan.send_col_source)
        IN /\ name_cols \cap phone_cols = {}
           /\ name_cols \cap flag_cols = {}
           /\ phone_cols \cap flag_cols = {}

\* A header with two name-like columns, a phone column and a flag column: the
\* three roles are bound to three columns and the second name-like column to
\* none.
C11_Witness ==
    /\ Scanned
    /\ run.file.header = <<"Tenant", "Name", "PHONE", "Paid">>
    /\ BoundTo("Name") = {"Tenant"}
    /\ BoundTo("PhoneNumber") = {"PHONE"}
    /\ run.scan.send_col_source = <<"Paid">>

\* The last script run loaded the default file after a save in an earlier
\* session.
ReloadedAfterSave == run.path = "default" /\ saved # <<>>

\* C12 as stated: a table saved with the save button and normalised again
\* from the file is identical to the table that was saved, whatever its
\* names, phone numbers and flags.
C12_RoundTrip == ReloadedAfterSave => recipients_df = saved

\* C12 amended: a table with at least one row that was saved with the save
\* button and normalised again from the file is identical to the table that
\* was saved; for a table without rows the button writes nothing, shows a
\* warning and leaves the file on disk as it was.
C12_RoundTripOfNonEmptyTable ==
    /\ [](ReloadedAfterSave /\ ~is_empty(saved[1]) => recipients_df = saved)
    /\ [][(run'.path = "save" /\ run'.outcome # "save_failed" /\ is_empty(saved'[1])) =>
             /\ disk' = disk
             /\ Noticed(run', "warning", "empty")]_vars

\* A table of two rows, one with a null name and a true flag, one with a
\* false flag, was saved and is back after the reload.
C12_Witness ==
    /\ ReloadedAfterSave
    /\ disk.header = <<"Name", "PhoneNumber", "SendFlag">>
    /\ Len(Table.rows) = 2
    /\ \E i, k \in DOMAIN Table.rows :
          /\ Table.rows[i][1] = <<>>
          /\ Table.rows[i][3] = <<TRUE>>
          /\ Table.rows[k][3] = <<FALSE>>
    /\ recipients_df = saved

\* The text lines of the file that hold a record the normaliser marks to
\* send and that has a phone number: record i is text line i + 1, after the
\* header line.  A file the normaliser rejects has no record.
LinesToSend(file) ==
    LET r == default_load(file)
    IN IF r.outcome # "stored" THEN {}
       ELSE {i + 1 : i \in {i \in DOMAIN r.df.rows : /\ r.df.rows[i][3] = <<TRUE>>
                                                     /\ r.df.rows[i][2] # <<>>}}

\* The calls of client.messages.create made for text line k.
CallsFor(k) == {m \in DOMAIN outbox : outbox[m].line = k}

\* C13: when the dispatcher has gone through a spreadsheet, it has issued
\* exactly one outbound message for each record whose sendFlag, as the
\* normaliser resolves it for the same file, is true and whose phone number
\* is not empty, and none for any other record or for the header line.
C13_OneMessagePerFlaggedRecord ==
    (main_run.status = "done" /\ main_run.credentials_ok) =>
        \A k \in DOMAIN text_lines(main_run.file) :
            Cardinality(CallsFor(k)) = IF k \in LinesToSend(main_run.file) THEN 1 ELSE 0

\* The text lines main() selects and that have a phone number.
LinesSelected(file) ==
    {k \in DOMAIN text_lines(file) :
        /\ selected_for_send(split(text_lines(file)[k]))
        /\ strip(split(text_lines(file)[k])[4]) # ""}

\* C14: a failure while sending or enqueuing for one recipient prevents the
\* attempt for no later recipient and does not leave the dispatch operation:
\* main(), given credentials the client accepts, ends normally with a call
\* made for every line it selects, and send_all_reminders_task ends with an
\* enqueue attempted for every recipient of its list.
C14_AttemptsIndependent ==
    /\ (/\ main_run.status \in {"done", "raised"}
        /\ main_run.file.exists
        /\ main_run.credentials_ok) =>
          /\ main_run.status = "done"
          /\ \A k \in LinesSelected(main_run.file) : CallsFor(k) # {}
    /\ task_run.status \in {"done", "error_logged"} =>
          \/ task_run.status = "done"
          \/ task_run.next = Len(recipients_to_send)

\* What the path that did not run gives on the file of the last run, in a
\* session whose table is empty.
OtherPath ==
    IF run.path = "default"
    THEN upload_process(run.file, EmptyFrame)
    ELSE default_load(run.file)

\* The lists of roles the missing-column notices of r name.
MissingReported(r) ==
    {r.notices[k].missing : k \in {k \in DOMAIN r.notices : r.notices[k].about = "missing"}}

\* C15: on the same file the default-file load and the upload path resolve
\* the same name, phone and flag-source columns with the same polarity, end
\* the same way, store the same table on success and report the same missing
\* roles on failure.
C15_PathsAgree ==
    Scanned =>
        /\ run.scan = OtherPath.scan
        /\ run.outcome = OtherPath.outcome
        /\ run.outcome = "stored" => Table = editor_write_back(OtherPath.df)
        /\ run.outcome = "missing" =>
              /\ run.missing = OtherPath.missing
              /\ MissingReported(run) = MissingReported(OtherPath)

\* An upload stored rows, one of them marked to send, under the negative
\* flag column Paid, as the default-file load does on the same file.
C15_Witness ==
    /\ Stored
    /\ run.path = "upload"
    /\ run.scan.send_col_source = <<"Paid">>
    /\ ~run.scan.send_flag_interpretation
    /\ \E i \in DOMAIN Table.rows : Table.rows[i][3] = <<TRUE>>
    /\ Table = default_load(run.file).df

\* C16: under any interleaving of calls of get_arq_pool, create_pool is
\* called at most once between two closes and every caller is handed the
\* same pool.
C16_PoolIsSingleton ==
    /\ epoch.creates <= 1
    /\ Cardinality(epoch.returned) <= 1

\* No call of a pool function is suspended at its await.
Quiescent == \A c \in Callers : calls[c].pc # "awaiting"

\* C18: under any interleaving of get_arq_pool and close_arq_pool, no caller
\* of get_arq_pool is handed a pool on which close() was already called,
\* close() is called at most once on every pool, and once no call is in
\* progress and the global is None every pool that was created is closed.
C18_NoStaleOrLeakedPool ==
    /\ \A c \in Callers :
          (calls[c].op = "get" /\ calls[c].pc = "returned") => calls[c].result_state = "open"
    /\ \A p \in DOMAIN pools : pools[p].closes <= 1
    /\ (Quiescent /\ arq_redis_pool = 0) =>
          \A p \in DOMAIN pools : pools[p].state = "closed"

\* The jobs of the queue that run send_all_reminders_task.
SendAllJobs == {k \in DOMAIN queue : queue[k].function = "send_all_reminders_task"}

\* The requests answered with the success response.
Succeeded == {r \in DOMAIN requests : requests[r].response.status = 200}

\* C17: a request gets the success response with a job id only if it
\* enqueued exactly one send_all_reminders_task job, the one with that id;
\* a request that finds no pool in the app state, before startup or after
\* shutdown, gets a 500 and enqueues nothing; a request whose enqueue_job
\* returned no job gets a 500.
C17_SuccessOnlyIfEnqueued ==
    /\ \A r \in DOMAIN requests :
          /\ requests[r].response.status = 200 =>
                /\ requests[r].enqueued = 1
                /\ requests[r].response.job_id \in SendAllJobs
          /\ requests[r].seen <= 0 =>
                /\ requests[r].response.status = 500
                /\ requests[r].enqueued = 0
          /\ (requests[r].pc = "done" /\ requests[r].enqueued = 0) =>
                requests[r].response.status = 500
    /\ \A r1, r2 \in Succeeded :
          r1 # r2 => requests[r1].response.job_id # requests[r2].response.job_id
    /\ Cardinality(SendAllJobs) = Cardinality(Succeeded)

\* After a shutdown, one request succeeded with its job in the queue, and
\* another, which found None in the app state, was refused.
C17_Witness ==
    /\ lifespan = "stopped"
    /\ \E r1, r2 \in DOMAIN requests :
          /\ requests[r1].response.status = 200
          /\ queue[requests[r1].response.job_id].function = "send_all_reminders_task"
          /\ requests[r2].seen = 0
          /\ requests[r2].response = Response(500, "Task queue not available", 0)
    /\ Len(queue) = 1

\* C19: after any sequence of schedule selections the type stored in the
\* session state is one of the options of the select box, and the index
\* lookup of a script run never falls back to "Manual Trigger Only" for a
\* type the script itself stored.
C19_StoredTypeIsAnOption ==
    /\ schedule.type \in Range(schedule_options)
    /\ ~schedule_run.fell_back

====
